---- MODULE Spec2Model ----
(***************************************************************************)
(* Model of webcast.py: the schedule scraper that resolves team text to    *)
(* stream slugs, probes them, and writes a playlist.                       *)
(*                                                                         *)
(* Text is modelled as a sequence of one-character strings, so that the    *)
(* string functions of the source (strip, split, lower, title, re.sub) are *)
(* computed character by character.  Slugs, once built, are strings.       *)
(***************************************************************************)
EXTENDS Integers, Sequences, FiniteSets, TLC

VARIABLES
    fn,           \* pure-function harness: the function under call
    arg,          \* its argument record
    ret,          \* <<>> before the call returns, <<result>> after
    league,       \* scrape_ppv_league: the league wrapper that called it
    pc,           \* scrape_ppv_league: the await the coroutine is suspended at
    rowsRead,     \* scrape_ppv_league: game rows taken from the table so far
    current_date, \* scrape_ppv_league: current_date
    row,          \* scrape_ppv_league: the fields read from the current game row
    stage,        \* resolve_team_slug: which first_verified call is running
    fv_cands,     \* first_verified: the list it iterates
    idx,          \* first_verified: the position of the slug being probed
    probes,       \* the verify_stream_url calls made for the current row, with their answers
    resolved,     \* scrape_ppv_league: resolved_slug, <<>> for None
    results,      \* scrape_ppv_league: results
    taskState,    \* main: the state of each of the six league tasks
    taskResult,   \* main: the list each finished task returned
    mainPc,       \* main: where main is
    playlist      \* write_playlist: <<>> while no file is written, <<streams>> after

pureVars == <<fn, arg, ret>>
scrapeVars == <<league, pc, rowsRead, current_date, row, stage, fv_cands, idx, probes, resolved,
                results>>
mainVars == <<taskState, taskResult, mainPc, playlist>>
vars == <<fn, arg, ret, league, pc, rowsRead, current_date, row, stage, fv_cands, idx, probes,
          resolved, results, taskState, taskResult, mainPc, playlist>>

\* the row variable before any game row is read
NoRow ==
    [away_team |-> <<>>, home_team |-> <<>>, team_key |-> <<>>, backup_slug |-> "",
     row_text |-> <<>>]

\* the parts of the state a run of one function leaves out
PureIdle == fn = "" /\ arg = <<>> /\ ret = <<>>

ScrapeIdle ==
    /\ league = "" /\ pc = "idle" /\ rowsRead = 0 /\ current_date = [kind |-> "None"]
    /\ row = NoRow /\ stage = "" /\ fv_cands = <<>> /\ idx = 0 /\ probes = <<>>
    /\ resolved = <<>> /\ results = <<>>

MainIdle ==
    /\ taskState = <<>> /\ taskResult = <<>> /\ mainPc = "idle"
    /\ playlist = <<>>

None == "None"

(***************************************************************************)
(* Characters and Python's str methods                                     *)
(***************************************************************************)
\* the printable ASCII characters in code order, 32..126 without the backquote (96)
Ascii ==
    <<" ", "!", "\"", "#", "$", "%", "&", "'", "(", ")", "*", "+", ",", "-", ".", "/", "0", "1",
      "2", "3", "4", "5", "6", "7", "8", "9", ":", ";", "<", "=", ">", "?", "@", "A", "B", "C",
      "D", "E", "F", "G", "H", "I", "J", "K", "L", "M", "N", "O", "P", "Q", "R", "S", "T", "U",
      "V", "W", "X", "Y", "Z", "[", "\\", "]", "^", "_", "a", "b", "c", "d", "e", "f", "g",
      "h", "i", "j", "k", "l", "m", "n", "o", "p", "q", "r", "s", "t", "u", "v", "w", "x", "y",
      "z", "{", "|", "}", "~">>

Chars == {Ascii[i] : i \in 1..Len(Ascii)} \cup {"\t", "\n", "\r"}

OrdTable ==
    [c \in Chars |->
        IF c = "\t" THEN 9 ELSE IF c = "\n" THEN 10 ELSE IF c = "\r" THEN 13
        ELSE LET i == CHOOSE j \in 1..Len(Ascii) : Ascii[j] = c
             IN  IF i <= 64 THEN 31 + i ELSE 32 + i]

Ord(c) == OrdTable[c]
Chr(n) == IF n < 96 THEN Ascii[n - 31] ELSE Ascii[n - 32]

IsUpper(c) == Ord(c) \in 65..90
IsLower(c) == Ord(c) \in 97..122
IsAlpha(c) == IsUpper(c) \/ IsLower(c)
IsDigit(c) == Ord(c) \in 48..57
\* \w of the re module, ASCII range
IsWord(c) == IsAlpha(c) \/ IsDigit(c) \/ c = "_"
\* str.isspace / \s
IsSpace(c) == c \in {" ", "\t", "\n", "\r"}

LowerChar(c) == IF IsUpper(c) THEN Chr(Ord(c) + 32) ELSE c
UpperChar(c) == IF IsLower(c) THEN Chr(Ord(c) - 32) ELSE c

\* str.lower
Lower(s) == [i \in 1..Len(s) |-> LowerChar(s[i])]

\* str.title: a cased character is upper-cased after an uncased one, lower-cased
\* after a cased one
Title(s) ==
    [i \in 1..Len(s) |->
        IF i > 1 /\ IsAlpha(s[i - 1]) THEN LowerChar(s[i]) ELSE UpperChar(s[i])]

SetMin(S) == CHOOSE x \in S : \A y \in S : x <= y
SetMax(S) == CHOOSE x \in S : \A y \in S : x >= y

\* str.strip
Strip(s) ==
    LET ns == {i \in 1..Len(s) : ~IsSpace(s[i])}
    IN  IF ns = {} THEN <<>> ELSE SubSeq(s, SetMin(ns), SetMax(ns))

\* str.split(): the maximal runs of non-whitespace
RECURSIVE Split(_)
Split(s) ==
    LET ns == {i \in 1..Len(s) : ~IsSpace(s[i])}
    IN  IF ns = {} THEN <<>>
        ELSE LET b == SetMin(ns)
                 sp == {i \in b..Len(s) : IsSpace(s[i])}
                 e == IF sp = {} THEN Len(s) + 1 ELSE SetMin(sp)
             IN  <<SubSeq(s, b, e - 1)>> \o Split(SubSeq(s, e, Len(s)))

\* sep.join(parts)
RECURSIVE JoinWith(_, _)
JoinWith(parts, sep) ==
    IF parts = <<>> THEN <<>>
    ELSE IF Len(parts) = 1 THEN parts[1]
    ELSE parts[1] \o sep \o JoinWith(Tail(parts), sep)

\* re.sub(r"\s+", " ", s)
RECURSIVE CollapseSpace(_)
CollapseSpace(s) ==
    IF s = <<>> THEN <<>>
    ELSE IF IsSpace(s[1])
         THEN LET ns == {i \in 1..Len(s) : ~IsSpace(s[i])}
              IN  IF ns = {} THEN <<" ">>
                  ELSE <<" ">> \o CollapseSpace(SubSeq(s, SetMin(ns), Len(s)))
         ELSE <<s[1]>> \o CollapseSpace(Tail(s))

\* the str value of a character sequence
RECURSIVE Str(_)
Str(s) == IF s = <<>> THEN "" ELSE s[1] \o Str(Tail(s))

\* needle in haystack (substring test)
Contains(hay, needle) ==
    \E i \in 0..(Len(hay) - Len(needle)) : SubSeq(hay, i + 1, i + Len(needle)) = needle

\* x in list
InSeq(x, list) == \E i \in 1..Len(list) : list[i] = x

\* dict.get(k) on the string-keyed tables; a miss is the empty string (falsy)
Get(table, k) == IF k \in DOMAIN table THEN table[k] ELSE ""

\* dict.get(k, miss) on the tables keyed by character sequences
GetSeq(table, k, miss) ==
    IF \E i \in 1..Len(table) : table[i].key = k
    THEN table[CHOOSE i \in 1..Len(table) : table[i].key = k].val
    ELSE miss

(***************************************************************************)
(* Team tables                                                             *)
(***************************************************************************)
NFL_TEAM_SLUGS ==
    << [key |-> <<"a", "r", "i", "z", "o", "n", "a", " ", "c", "a", "r", "d", "i", "n", "a", "l", "s">>,
        val |-> "arizonacardinals"],
       [key |-> <<"a", "t", "l", "a", "n", "t", "a", " ", "f", "a", "l", "c", "o", "n", "s">>,
        val |-> "atlantafalcons"],
       [key |-> <<"b", "a", "l", "t", "i", "m", "o", "r", "e", " ", "r", "a", "v", "e", "n", "s">>,
        val |-> "baltimoreravens"],
       [key |-> <<"b", "u", "f", "f", "a", "l", "o", " ", "b", "i", "l", "l", "s">>,
        val |-> "buffalobills"],
       [key |-> <<"c", "a", "r", "o", "l", "i", "n", "a", " ", "p", "a", "n", "t", "h", "e", "r", "s">>,
        val |-> "carolinapanthers"],
       [key |-> <<"c", "h", "i", "c", "a", "g", "o", " ", "b", "e", "a", "r", "s">>,
        val |-> "chicagobears"],
       [key |-> <<"c", "i", "n", "c", "i", "n", "n", "a", "t", "i", " ", "b", "e", "n", "g", "a", "l", "s">>,
        val |-> "cincinnatibengals"],
       [key |-> <<"c", "l", "e", "v", "e", "l", "a", "n", "d", " ", "b", "r", "o", "w", "n", "s">>,
        val |-> "clevelandbrowns"],
       [key |-> <<"d", "a", "l", "l", "a", "s", " ", "c", "o", "w", "b", "o", "y", "s">>,
        val |-> "dallascowboys"],
       [key |-> <<"d", "e", "n", "v", "e", "r", " ", "b", "r", "o", "n", "c", "o", "s">>,
        val |-> "denverbroncos"],
       [key |-> <<"d", "e", "t", "r", "o", "i", "t", " ", "l", "i", "o", "n", "s">>,
        val |-> "detroitlions"],
       [key |-> <<"g", "r", "e", "e", "n", " ", "b", "a", "y", " ", "p", "a", "c", "k", "e", "r", "s">>,
        val |-> "greenbaypackers"],
       [key |-> <<"h", "o", "u", "s", "t", "o", "n", " ", "t", "e", "x", "a", "n", "s">>,
        val |-> "houstontexans"],
       [key |-> <<"i", "n", "d", "i", "a", "n", "a", "p", "o", "l", "i", "s", " ", "c", "o", "l", "t", "s">>,
        val |-> "indianapoliscolts"],
       [key |-> <<"j", "a", "c", "k", "s", "o", "n", "v", "i", "l", "l", "e", " ", "j", "a", "g", "u", "a", "r", "s">>,
        val |-> "jacksonvillejaguars"],
       [key |-> <<"k", "a", "n", "s", "a", "s", " ", "c", "i", "t", "y", " ", "c", "h", "i", "e", "f", "s">>,
        val |-> "kansascitychiefs"],
       [key |-> <<"l", "a", "s", " ", "v", "e", "g", "a", "s", " ", "r", "a", "i", "d", "e", "r", "s">>,
        val |-> "lasvegasraiders"],
       [key |-> <<"l", "o", "s", " ", "a", "n", "g", "e", "l", "e", "s", " ", "c", "h", "a", "r", "g", "e", "r", "s">>,
        val |-> "losangeleschargers"],
       [key |-> <<"l", "o", "s", " ", "a", "n", "g", "e", "l", "e", "s", " ", "r", "a", "m", "s">>,
        val |-> "losangelesrams"],
       [key |-> <<"m", "i", "a", "m", "i", " ", "d", "o", "l", "p", "h", "i", "n", "s">>,
        val |-> "miamidolphins"],
       [key |-> <<"m", "i", "n", "n", "e", "s", "o", "t", "a", " ", "v", "i", "k", "i", "n", "g", "s">>,
        val |-> "minnesotavikings"],
       [key |-> <<"n", "e", "w", " ", "e", "n", "g", "l", "a", "n", "d", " ", "p", "a", "t", "r", "i", "o", "t", "s">>,
        val |-> "newenglandpatriots"],
       [key |-> <<"n", "e", "w", " ", "o", "r", "l", "e", "a", "n", "s", " ", "s", "a", "i", "n", "t", "s">>,
        val |-> "neworleanssaints"],
       [key |-> <<"n", "e", "w", " ", "y", "o", "r", "k", " ", "g", "i", "a", "n", "t", "s">>,
        val |-> "newyorkgiants"],
       [key |-> <<"n", "e", "w", " ", "y", "o", "r", "k", " ", "j", "e", "t", "s">>,
        val |-> "newyorkjets"],
       [key |-> <<"p", "h", "i", "l", "a", "d", "e", "l", "p", "h", "i", "a", " ", "e", "a", "g", "l", "e", "s">>,
        val |-> "philadelphiaeagles"],
       [key |-> <<"p", "i", "t", "t", "s", "b", "u", "r", "g", "h", " ", "s", "t", "e", "e", "l", "e", "r", "s">>,
        val |-> "pittsburghsteelers"],
       [key |-> <<"s", "a", "n", " ", "f", "r", "a", "n", "c", "i", "s", "c", "o", " ", "4", "9", "e", "r", "s">>,
        val |-> "sanfrancisco49ers"],
       [key |-> <<"s", "e", "a", "t", "t", "l", "e", " ", "s", "e", "a", "h", "a", "w", "k", "s">>,
        val |-> "seattleseahawks"],
       [key |-> <<"t", "a", "m", "p", "a", " ", "b", "a", "y", " ", "b", "u", "c", "c", "a", "n", "e", "e", "r", "s">>,
        val |-> "tampabaybuccaneers"],
       [key |-> <<"t", "e", "n", "n", "e", "s", "s", "e", "e", " ", "t", "i", "t", "a", "n", "s">>,
        val |-> "tennesseetitans"],
       [key |-> <<"w", "a", "s", "h", "i", "n", "g", "t", "o", "n", " ", "c", "o", "m", "m", "a", "n", "d", "e", "r", "s">>,
        val |-> "washingtoncommanders"] >>

NHL_TEAM_SLUGS ==
    << [key |-> <<"a", "n", "a", "h", "e", "i", "m", " ", "d", "u", "c", "k", "s">>,
        val |-> "anaheimducks"],
       [key |-> <<"a", "r", "i", "z", "o", "n", "a", " ", "c", "o", "y", "o", "t", "e", "s">>,
        val |-> "arizonacoyotes"],
       [key |-> <<"b", "o", "s", "t", "o", "n", " ", "b", "r", "u", "i", "n", "s">>,
        val |-> "bostonbruins"],
       [key |-> <<"b", "u", "f", "f", "a", "l", "o", " ", "s", "a", "b", "r", "e", "s">>,
        val |-> "buffalosabres"],
       [key |-> <<"c", "a", "l", "g", "a", "r", "y", " ", "f", "l", "a", "m", "e", "s">>,
        val |-> "calgaryflames"],
       [key |-> <<"c", "a", "r", "o", "l", "i", "n", "a", " ", "h", "u", "r", "r", "i", "c", "a", "n", "e", "s">>,
        val |-> "carolinahurricanes"],
       [key |-> <<"c", "h", "i", "c", "a", "g", "o", " ", "b", "l", "a", "c", "k", "h", "a", "w", "k", "s">>,
        val |-> "chicagoblackhawks"],
       [key |-> <<"c", "o", "l", "o", "r", "a", "d", "o", " ", "a", "v", "a", "l", "a", "n", "c", "h", "e">>,
        val |-> "coloradoavalanche"],
       [key |-> <<"c", "o", "l", "u", "m", "b", "u", "s", " ", "b", "l", "u", "e", " ", "j", "a", "c", "k", "e", "t", "s">>,
        val |-> "columbusbluejackets"],
       [key |-> <<"d", "a", "l", "l", "a", "s", " ", "s", "t", "a", "r", "s">>,
        val |-> "dallasstars"],
       [key |-> <<"d", "e", "t", "r", "o", "i", "t", " ", "r", "e", "d", " ", "w", "i", "n", "g", "s">>,
        val |-> "detroitredwings"],
       [key |-> <<"e", "d", "m", "o", "n", "t", "o", "n", " ", "o", "i", "l", "e", "r", "s">>,
        val |-> "edmontonoilers"],
       [key |-> <<"f", "l", "o", "r", "i", "d", "a", " ", "p", "a", "n", "t", "h", "e", "r", "s">>,
        val |-> "floridapanthers"],
       [key |-> <<"l", "o", "s", " ", "a", "n", "g", "e", "l", "e", "s", " ", "k", "i", "n", "g", "s">>,
        val |-> "losangeleskings"],
       [key |-> <<"m", "i", "n", "n", "e", "s", "o", "t", "a", " ", "w", "i", "l", "d">>,
        val |-> "minnesotawild"],
       [key |-> <<"m", "o", "n", "t", "r", "e", "a", "l", " ", "c", "a", "n", "a", "d", "i", "e", "n", "s">>,
        val |-> "montrealcanadiens"],
       [key |-> <<"n", "a", "s", "h", "v", "i", "l", "l", "e", " ", "p", "r", "e", "d", "a", "t", "o", "r", "s">>,
        val |-> "nashvillepredators"],
       [key |-> <<"n", "e", "w", " ", "j", "e", "r", "s", "e", "y", " ", "d", "e", "v", "i", "l", "s">>,
        val |-> "newjerseydevils"],
       [key |-> <<"n", "e", "w", " ", "y", "o", "r", "k", " ", "i", "s", "l", "a", "n", "d", "e", "r", "s">>,
        val |-> "newyorkislanders"],
       [key |-> <<"n", "e", "w", " ", "y", "o", "r", "k", " ", "r", "a", "n", "g", "e", "r", "s">>,
        val |-> "newyorkrangers"],
       [key |-> <<"o", "t", "t", "a", "w", "a", " ", "s", "e", "n", "a", "t", "o", "r", "s">>,
        val |-> "ottawasenators"],
       [key |-> <<"p", "h", "i", "l", "a", "d", "e", "l", "p", "h", "i", "a", " ", "f", "l", "y", "e", "r", "s">>,
        val |-> "philadelphiaflyers"],
       [key |-> <<"p", "i", "t", "t", "s", "b", "u", "r", "g", "h", " ", "p", "e", "n", "g", "u", "i", "n", "s">>,
        val |-> "pittsburghpenguins"],
       [key |-> <<"s", "a", "n", " ", "j", "o", "s", "e", " ", "s", "h", "a", "r", "k", "s">>,
        val |-> "sanjosesharks"],
       [key |-> <<"s", "e", "a", "t", "t", "l", "e", " ", "k", "r", "a", "k", "e", "n">>,
        val |-> "seattlekraken"],
       [key |-> <<"s", "t", ".", " ", "l", "o", "u", "i", "s", " ", "b", "l", "u", "e", "s">>,
        val |-> "stlouisblues"],
       [key |-> <<"t", "a", "m", "p", "a", " ", "b", "a", "y", " ", "l", "i", "g", "h", "t", "n", "i", "n", "g">>,
        val |-> "tampabaylightning"],
       [key |-> <<"t", "o", "r", "o", "n", "t", "o", " ", "m", "a", "p", "l", "e", " ", "l", "e", "a", "f", "s">>,
        val |-> "torontomapleleafs"],
       [key |-> <<"v", "a", "n", "c", "o", "u", "v", "e", "r", " ", "c", "a", "n", "u", "c", "k", "s">>,
        val |-> "vancouvercanucks"],
       [key |-> <<"v", "e", "g", "a", "s", " ", "g", "o", "l", "d", "e", "n", " ", "k", "n", "i", "g", "h", "t", "s">>,
        val |-> "vegasgoldenknights"],
       [key |-> <<"w", "a", "s", "h", "i", "n", "g", "t", "o", "n", " ", "c", "a", "p", "i", "t", "a", "l", "s">>,
        val |-> "washingtoncapitals"],
       [key |-> <<"w", "i", "n", "n", "i", "p", "e", "g", " ", "j", "e", "t", "s">>,
        val |-> "winnipegjets"] >>

NFL_NICK_SLUGS ==
    "cardinals" :> "arizonacardinals" @@ "falcons" :> "atlantafalcons" @@
    "ravens" :> "baltimoreravens" @@ "bills" :> "buffalobills" @@
    "panthers" :> "carolinapanthers" @@ "bears" :> "chicagobears" @@
    "bengals" :> "cincinnatibengals" @@ "browns" :> "clevelandbrowns" @@
    "cowboys" :> "dallascowboys" @@ "broncos" :> "denverbroncos" @@ "lions" :> "detroitlions" @@
    "packers" :> "greenbaypackers" @@ "texans" :> "houstontexans" @@
    "colts" :> "indianapoliscolts" @@ "jaguars" :> "jacksonvillejaguars" @@
    "chiefs" :> "kansascitychiefs" @@ "raiders" :> "lasvegasraiders" @@
    "chargers" :> "losangeleschargers" @@ "rams" :> "losangelesrams" @@
    "dolphins" :> "miamidolphins" @@ "vikings" :> "minnesotavikings" @@
    "patriots" :> "newenglandpatriots" @@ "saints" :> "neworleanssaints" @@
    "giants" :> "newyorkgiants" @@ "jets" :> "newyorkjets" @@
    "eagles" :> "philadelphiaeagles" @@ "steelers" :> "pittsburghsteelers" @@
    "49ers" :> "sanfrancisco49ers" @@ "niners" :> "sanfrancisco49ers" @@
    "seahawks" :> "seattleseahawks" @@ "buccaneers" :> "tampabaybuccaneers" @@
    "bucs" :> "tampabaybuccaneers" @@ "titans" :> "tennesseetitans" @@
    "commanders" :> "washingtoncommanders"

NHL_NICK_SLUGS ==
    "ducks" :> "anaheimducks" @@ "coyotes" :> "arizonacoyotes" @@ "bruins" :> "bostonbruins" @@
    "sabres" :> "buffalosabres" @@ "flames" :> "calgaryflames" @@
    "hurricanes" :> "carolinahurricanes" @@ "blackhawks" :> "chicagoblackhawks" @@
    "avalanche" :> "coloradoavalanche" @@ "bluejackets" :> "columbusbluejackets" @@
    "jackets" :> "columbusbluejackets" @@ "stars" :> "dallasstars" @@
    "redwings" :> "detroitredwings" @@ "wings" :> "detroitredwings" @@
    "oilers" :> "edmontonoilers" @@ "panthers" :> "floridapanthers" @@
    "kings" :> "losangeleskings" @@ "wild" :> "minnesotawild" @@
    "canadiens" :> "montrealcanadiens" @@ "predators" :> "nashvillepredators" @@
    "devils" :> "newjerseydevils" @@ "islanders" :> "newyorkislanders" @@
    "rangers" :> "newyorkrangers" @@ "senators" :> "ottawasenators" @@
    "flyers" :> "philadelphiaflyers" @@ "penguins" :> "pittsburghpenguins" @@
    "sharks" :> "sanjosesharks" @@ "kraken" :> "seattlekraken" @@ "blues" :> "stlouisblues" @@
    "lightning" :> "tampabaylightning" @@ "mapleleafs" :> "torontomapleleafs" @@
    "leafs" :> "torontomapleleafs" @@ "canucks" :> "vancouvercanucks" @@
    "goldenknights" :> "vegasgoldenknights" @@ "knights" :> "vegasgoldenknights" @@
    "capitals" :> "washingtoncapitals" @@ "caps" :> "washingtoncapitals" @@
    "jets" :> "winnipegjets"

NBA_NICK_TO_CODE ==
    "hawks" :> "atlantahawks" @@ "celtics" :> "bostonceltics" @@ "nets" :> "brooklynnets" @@
    "hornets" :> "charlottehornets" @@ "bulls" :> "chicagobulls" @@
    "cavaliers" :> "clevelandcavaliers" @@ "mavericks" :> "dallasmavericks" @@
    "nuggets" :> "denvernuggets" @@ "pistons" :> "detroitpistons" @@
    "warriors" :> "goldenstatewarriors" @@ "rockets" :> "houstonrockets" @@
    "pacers" :> "indianapacers" @@ "clippers" :> "losangelesclippers" @@
    "lakers" :> "losangeleslakers" @@ "grizzlies" :> "memphisgrizzlies" @@
    "heat" :> "miamiheat" @@ "bucks" :> "milwaukeebucks" @@
    "timberwolves" :> "minnesotatimberwolves" @@ "pelicans" :> "neworleanspelicans" @@
    "knicks" :> "newyorkknicks" @@ "thunder" :> "oklahomacitythunder" @@
    "magic" :> "orlandomagic" @@ "sixers" :> "philadelphiasixers" @@ "suns" :> "phoenixsuns" @@
    "trailblazers" :> "portlandtrailblazers" @@ "kings" :> "sacramentokings" @@
    "spurs" :> "sanantoniospurs" @@ "raptors" :> "torontoraptors" @@ "jazz" :> "utahjazz" @@
    "wizards" :> "washingtonwizards"

TWO_WORD_NICKNAMES ==
    << [key |-> <<"r", "e", "d", " ", "s", "o", "x">>, val |-> <<"r", "e", "d", "s", "o", "x">>],
       [key |-> <<"w", "h", "i", "t", "e", " ", "s", "o", "x">>, val |-> <<"w", "h", "i", "t", "e", "s", "o", "x">>],
       [key |-> <<"b", "l", "u", "e", " ", "j", "a", "y", "s">>, val |-> <<"b", "l", "u", "e", "j", "a", "y", "s">>],
       [key |-> <<"t", "r", "a", "i", "l", " ", "b", "l", "a", "z", "e", "r", "s">>, val |-> <<"t", "r", "a", "i", "l", "b", "l", "a", "z", "e", "r", "s">>] >>

ALT_NICK_MAP ==
    << [key |-> <<"7", "6", "e", "r", "s">>, val |-> <<"s", "i", "x", "e", "r", "s">>],
       [key |-> <<"s", "e", "v", "e", "n", "t", "y", " ", "s", "i", "x", "e", "r", "s">>, val |-> <<"s", "i", "x", "e", "r", "s">>] >>

(***************************************************************************)
(* Slug candidate generation                                               *)
(***************************************************************************)

\* _slug: lower-case, then drop everything but [a-z0-9]
_slug(s) == SelectSeq(Lower(s), LAMBDA c : IsLower(c) \/ IsDigit(c))

\* out.append(m) for each truthy m not yet in out
RECURSIVE AppendNew(_, _)
AppendNew(out, ms) ==
    IF ms = <<>> THEN out
    ELSE AppendNew(IF ms[1] # "" /\ ~InSeq(ms[1], out) THEN Append(out, ms[1]) ELSE out,
                   Tail(ms))

\* the last n elements of a list: parts[-n:]
LastN(parts, n) == SubSeq(parts, Len(parts) - n + 1, Len(parts))

\* general_candidates with the nickname tables consulted before the full-name tables
general_candidates_nick_first(txt) ==
    LET base_norm == CollapseSpace(Lower(Strip(txt)))
        parts == Split(base_norm)
        last == IF parts # <<>> THEN Str(_slug(parts[Len(parts)])) ELSE ""
        two_last == IF Len(parts) >= 2 THEN Str(_slug(JoinWith(LastN(parts, 2), <<" ">>))) ELSE ""
        out == AppendNew(<<>>, <<Get(NFL_NICK_SLUGS, two_last), Get(NFL_NICK_SLUGS, last),
                                 Get(NHL_NICK_SLUGS, two_last), Get(NHL_NICK_SLUGS, last),
                                 GetSeq(NFL_TEAM_SLUGS, base_norm, ""),
                                 GetSeq(NHL_TEAM_SLUGS, base_norm, "")>>)
        joined == Str(_slug(base_norm))
    IN  IF joined # "" /\ ~InSeq(joined, out) THEN Append(out, joined) ELSE out

\* general_candidates without the raw-slug fallback
general_candidates_no_fallback(txt) ==
    LET base_norm == CollapseSpace(Lower(Strip(txt)))
        full == SelectSeq(<<GetSeq(NFL_TEAM_SLUGS, base_norm, ""), GetSeq(NHL_TEAM_SLUGS, base_norm, "")>>,
                          LAMBDA m : m # "")
        parts == Split(base_norm)
        last == IF parts # <<>> THEN Str(_slug(parts[Len(parts)])) ELSE ""
        two_last == IF Len(parts) >= 2 THEN Str(_slug(JoinWith(LastN(parts, 2), <<" ">>))) ELSE ""
    IN  AppendNew(full, <<Get(NFL_NICK_SLUGS, two_last), Get(NFL_NICK_SLUGS, last),
                          Get(NHL_NICK_SLUGS, two_last), Get(NHL_NICK_SLUGS, last)>>)

\* general_candidates nested in resolve_team_slug
general_candidates(txt) ==
    LET base_norm == CollapseSpace(Lower(Strip(txt)))
        full == SelectSeq(<<GetSeq(NFL_TEAM_SLUGS, base_norm, ""), GetSeq(NHL_TEAM_SLUGS, base_norm, "")>>,
                          LAMBDA m : m # "")
        parts == Split(base_norm)
        last == IF parts # <<>> THEN Str(_slug(parts[Len(parts)])) ELSE ""
        two_last == IF Len(parts) >= 2 THEN Str(_slug(JoinWith(LastN(parts, 2), <<" ">>))) ELSE ""
        out == AppendNew(full, <<Get(NFL_NICK_SLUGS, two_last), Get(NFL_NICK_SLUGS, last),
                                 Get(NHL_NICK_SLUGS, two_last), Get(NHL_NICK_SLUGS, last)>>)
        joined == Str(_slug(base_norm))
    IN  IF joined # "" /\ ~InSeq(joined, out) THEN Append(out, joined) ELSE out

\* general_candidates nested in _home_match_candidates (a second copy in the source)
home_general_candidates(txt) ==
    LET base_norm == CollapseSpace(Lower(Strip(txt)))
        full == SelectSeq(<<GetSeq(NFL_TEAM_SLUGS, base_norm, ""), GetSeq(NHL_TEAM_SLUGS, base_norm, "")>>,
                          LAMBDA m : m # "")
        parts == Split(base_norm)
        last == IF parts # <<>> THEN Str(_slug(parts[Len(parts)])) ELSE ""
        two_last == IF Len(parts) >= 2 THEN Str(_slug(JoinWith(LastN(parts, 2), <<" ">>))) ELSE ""
        out == AppendNew(full, <<Get(NFL_NICK_SLUGS, two_last), Get(NFL_NICK_SLUGS, last),
                                 Get(NHL_NICK_SLUGS, two_last), Get(NHL_NICK_SLUGS, last)>>)
        joined == Str(_slug(base_norm))
    IN  IF joined # "" /\ ~InSeq(joined, out) THEN Append(out, joined) ELSE out

\* the values of ALT_NICK_MAP whose key occurs in txt, in table order
AltNickHits(txt) ==
    LET hit == SelectSeq(ALT_NICK_MAP, LAMBDA e : Contains(txt, e.key))
    IN  [i \in 1..Len(hit) |-> Str(_slug(hit[i].val))]

_nickname_only_candidates(team_text) ==
    LET txt == Lower(Strip(team_text))
        parts == Split(CollapseSpace(txt))
        last_two_phrase == IF Len(parts) >= 2 THEN JoinWith(LastN(parts, 2), <<" ">>) ELSE <<>>
        last_two == GetSeq(TWO_WORD_NICKNAMES, last_two_phrase, <<>>)
        last == IF parts # <<>> THEN parts[Len(parts)] ELSE <<>>
        cands == (IF last_two # <<>> THEN <<Str(_slug(last_two))>> ELSE <<>>)
                 \o (IF last # <<>> THEN <<Str(_slug(last))>> ELSE <<>>)
                 \o AltNickHits(txt)
    IN  IF txt = <<>> THEN <<>> ELSE AppendNew(<<>>, cands)

RECURSIVE ExpandFrom(_, _)
ExpandFrom(out, nick_cands) ==
    IF nick_cands = <<>> THEN out
    ELSE LET n == nick_cands[1]
             code == Get(NBA_NICK_TO_CODE, n)
             new_slug == "nba_" \o code
             out1 == IF code # "" /\ ~InSeq(new_slug, out) THEN Append(out, new_slug) ELSE out
             out2 == IF ~InSeq(n, out1) THEN Append(out1, n) ELSE out1
         IN  ExpandFrom(out2, Tail(nick_cands))

_expand_nba_candidates(nick_cands) == ExpandFrom(<<>>, nick_cands)

\* build_candidates nested in resolve_team_slug
build_candidates(txt, nickname_only) ==
    IF nickname_only THEN _expand_nba_candidates(_nickname_only_candidates(txt))
    ELSE general_candidates(txt)

\* set(list)
SeqSet(list) == {list[i] : i \in 1..Len(list)}

_home_match_candidates(home_text, nickname_only) ==
    IF nickname_only THEN SeqSet(_expand_nba_candidates(_nickname_only_candidates(home_text)))
    ELSE SeqSet(home_general_candidates(home_text))

(***************************************************************************)
(* Candidate generation as a function of the team text: inputs             *)
(***************************************************************************)

\* words a schedule page puts in a team cell
Words ==
    { <<"C", "a", "r", "o", "l", "i", "n", "a">>,
      <<"P", "a", "n", "t", "h", "e", "r", "s">>,
      <<"W", "i", "n", "n", "i", "p", "e", "g">>,
      <<"J", "e", "t", "s">>,
      <<"R", "e", "d">>,
      <<"S", "o", "x">>,
      <<"T", "r", "a", "i", "l">>,
      <<"B", "l", "a", "z", "e", "r", "s">>,
      <<"L", "a", "k", "e", "r", "s">>,
      <<"7", "6", "e", "r", "s">>,
      <<"K", "i", "n", "g", "s">>,
      <<"-">> }

\* most words in a composed team text
MaxWords == 2

RECURSIVE WordSeqs(_)
WordSeqs(n) ==
    IF n = 0 THEN {<<>>}
    ELSE LET S == WordSeqs(n - 1)
         IN  S \cup {Append(p, w) : p \in {q \in S : Len(q) = n - 1}, w \in Words}

Seps == {<<" ">>, <<" ", "\n", " ">>}

ComposedTexts == {JoinWith(ws, sep) : ws \in WordSeqs(MaxWords), sep \in Seps}

FullNames ==
    {NFL_TEAM_SLUGS[i].key : i \in 1..Len(NFL_TEAM_SLUGS)}
        \cup {NHL_TEAM_SLUGS[i].key : i \in 1..Len(NHL_TEAM_SLUGS)}

\* a full name as a page may print it: upper case, doubled blanks, padded
Padded(k) ==
    <<" ">> \o JoinWith(Split([i \in 1..Len(k) |-> UpperChar(k[i])]), <<" ", " ">>) \o <<"\t">>

FullNameTexts == FullNames \cup {Title(k) : k \in FullNames} \cup {Padded(k) : k \in FullNames}

TeamTexts == ComposedTexts \cup FullNameTexts

CandInit ==
    /\ fn \in {"build_candidates", "_home_match_candidates"}
    /\ arg \in [txt : TeamTexts, nickname_only : BOOLEAN]
    /\ ret = <<>>
    /\ ScrapeIdle /\ MainIdle

CallBuildCandidates ==
    /\ fn = "build_candidates"
    /\ ret = <<>>
    /\ ret' = <<build_candidates(arg.txt, arg.nickname_only)>>
    /\ UNCHANGED <<fn, arg, scrapeVars, mainVars>>

CallHomeMatchCandidates ==
    /\ fn = "_home_match_candidates"
    /\ ret = <<>>
    /\ ret' = <<_home_match_candidates(arg.txt, arg.nickname_only)>>
    /\ UNCHANGED <<fn, arg, scrapeVars, mainVars>>

CandNext == CallBuildCandidates \/ CallHomeMatchCandidates

SpecCand == CandInit /\ [][CandNext]_vars

(***************************************************************************)
(* Properties of candidate generation (SpecCand)                           *)
(***************************************************************************)

BuiltFor(nickname_only) ==
    fn = "build_candidates" /\ ret # <<>> /\ arg.nickname_only = nickname_only

\* the raw alphanumeric-only slugification of the whole input text
RawSlug(txt) == Str(_slug(txt))

\* every slug a team table can contribute
TableSlugs ==
    {NFL_TEAM_SLUGS[i].val : i \in 1..Len(NFL_TEAM_SLUGS)}
        \cup {NHL_TEAM_SLUGS[i].val : i \in 1..Len(NHL_TEAM_SLUGS)}
        \cup {NFL_NICK_SLUGS[k] : k \in DOMAIN NFL_NICK_SLUGS}
        \cup {NHL_NICK_SLUGS[k] : k \in DOMAIN NHL_NICK_SLUGS}

IsLast(x, list) == list # <<>> /\ list[Len(list)] = x

TableKey(txt) == CollapseSpace(Lower(Strip(txt)))

\* C5: in full-name mode a text that names a team of NFL_TEAM_SLUGS or
\* NHL_TEAM_SLUGS has that team's canonical slug as its first candidate.
C5_CanonicalSlugFirst ==
    \A tbl \in {NFL_TEAM_SLUGS, NHL_TEAM_SLUGS} :
        \A i \in 1..Len(tbl) :
            (BuiltFor(FALSE) /\ TableKey(arg.txt) = tbl[i].key) =>
                ret[1] # <<>> /\ ret[1][1] = tbl[i].val

\* a recognised name, not printed as the table spells it, whose nickname is shared
\* with another team
C5_Witness ==
    /\ BuiltFor(FALSE)
    /\ TableKey(arg.txt) \in FullNames
    /\ arg.txt # TableKey(arg.txt)
    /\ Len(ret[1]) >= 2

(***************************************************************************)
(* normalize_game_name                                                     *)
(***************************************************************************)

\* " ".join(s.splitlines()): every line break but a final one becomes a blank, the
\* final one is dropped; "\r\n" is one line break
RECURSIVE JoinLines(_)
JoinLines(s) ==
    IF s = <<>> THEN <<>>
    ELSE IF s[1] \in {"\n", "\r"}
         THEN LET k == IF s[1] = "\r" /\ Len(s) >= 2 /\ s[2] = "\n" THEN 2 ELSE 1
                  rest == SubSeq(s, k + 1, Len(s))
              IN  IF rest = <<>> THEN <<>> ELSE <<" ">> \o JoinLines(rest)
         ELSE <<s[1]>> \o JoinLines(Tail(s))

\* the alternatives of MONTH_RE, lower case (the searches are IGNORECASE)
MONTH_RE ==
    << <<"j", "a", "n">>, <<"f", "e", "b">>, <<"m", "a", "r">>, <<"a", "p", "r">>,
       <<"m", "a", "y">>, <<"j", "u", "n">>, <<"j", "u", "l">>, <<"a", "u", "g">>,
       <<"s", "e", "p">>, <<"s", "e", "p", "t">>, <<"o", "c", "t">>, <<"n", "o", "v">>,
       <<"d", "e", "c">> >>

\* \b between s[i] and s[i+1] (i = 0: start of text, i = Len(s): end of text)
WordBoundary(s, i) ==
    (i >= 1 /\ IsWord(s[i])) # (i < Len(s) /\ IsWord(s[i + 1]))

\* s[p..] starts with the word w, ignoring case
StartsAt(s, p, w) ==
    p + Len(w) - 1 <= Len(s) /\ Lower(SubSeq(s, p, p + Len(w) - 1)) = w

\* the number of letters of s from position p on: what [a-z]* can take
LetterRun(s, p) ==
    LET stop == {i \in p..Len(s) : ~IsAlpha(s[i])}
    IN  IF stop = {} THEN Len(s) - p + 1 ELSE SetMin(stop) - p

\* \b MONTH_RE \b matches at position p: some alternative, some number of further
\* letters and an optional dot end at a word boundary
MonthWordAt(s, p) ==
    /\ WordBoundary(s, p - 1)
    /\ \E i \in 1..Len(MONTH_RE) :
          /\ StartsAt(s, p, MONTH_RE[i])
          /\ \E k \in 0..LetterRun(s, p + Len(MONTH_RE[i])) :
                LET e == p + Len(MONTH_RE[i]) + k - 1
                IN  \/ WordBoundary(s, e)
                    \/ e < Len(s) /\ s[e + 1] = "." /\ WordBoundary(s, e + 1)

\* re.sub(rf"(\b{MONTH_RE}\b.*)$", "", b, flags=re.IGNORECASE): b is cut at the
\* leftmost month word (b holds no line break)
StripMonthTail(b) ==
    LET hits == {p \in 1..Len(b) : MonthWordAt(b, p)}
    IN  IF hits = {} THEN b ELSE SubSeq(b, 1, SetMin(hits) - 1)

\* the index of the first "@" of s, 0 if none
FirstAt(s) ==
    LET at == {i \in 1..Len(s) : s[i] = "@"}
    IN  IF at = {} THEN 0 ELSE SetMin(at)

\* normalize_game_name without the strip that follows the month-tail removal
normalize_game_name_no_strip(original_name) ==
    LET cleaned == Strip(JoinLines(original_name))
        i == FirstAt(cleaned)
        a == Title(Strip(SubSeq(cleaned, 1, i - 1)))
        b == Title(StripMonthTail(Strip(SubSeq(cleaned, i + 1, Len(cleaned)))))
    IN  IF i > 0 THEN a \o <<" ", "@", " ">> \o b
        ELSE Title(JoinWith(Split(cleaned), <<" ">>))

normalize_game_name(original_name) ==
    LET cleaned == Strip(JoinLines(original_name))
        i == FirstAt(cleaned)
        a == Title(Strip(SubSeq(cleaned, 1, i - 1)))
        b == Title(Strip(StripMonthTail(Strip(SubSeq(cleaned, i + 1, Len(cleaned))))))
    IN  IF i > 0 THEN a \o <<" ", "@", " ">> \o b
        ELSE Title(JoinWith(Split(cleaned), <<" ">>))

\* pieces of the text of a game cell: names, month words, digits, separators
NamePieces ==
    { <<"r", "a", "m", "s">>, <<"M", "a", "r", "l", "i", "n", "s">>, <<"M", "a", "y">>, <<"J", "A", "N", ".">>, <<"m", "a", "r", "c", "h", "5">>,
      <<"7">>, <<"@">>, <<" ">>, <<"\n">>, <<"\r">>, <<"-">> }

\* most pieces in a game text
MaxPieces == 4

RECURSIVE PieceTexts(_)
PieceTexts(n) ==
    IF n = 0 THEN {<<>>}
    ELSE LET S == PieceTexts(n - 1)
         IN  S \cup {p \o t : p \in NamePieces, t \in S}

GameTexts == PieceTexts(MaxPieces)

NormInit ==
    /\ fn = "normalize_game_name"
    /\ arg \in [original_name : GameTexts]
    /\ ret = <<>>
    /\ ScrapeIdle /\ MainIdle

\* the function applied to the text, and then to its own result
CallNormalize ==
    /\ fn = "normalize_game_name"
    /\ Len(ret) < 2
    /\ ret' = Append(ret, normalize_game_name(IF ret = <<>> THEN arg.original_name ELSE ret[1]))
    /\ UNCHANGED <<fn, arg, scrapeVars, mainVars>>

NormNext == CallNormalize

SpecNorm == NormInit /\ [][NormNext]_vars

(***************************************************************************)
(* Properties of normalize_game_name (SpecNorm)                            *)
(***************************************************************************)

\* C6: normalize_game_name is idempotent: applied to its own result it returns
\* that result unchanged.
C6_NormalizeIdempotent ==
    (fn = "normalize_game_name" /\ Len(ret) = 2) => ret[2] = ret[1]

\* an "away @ home" text with a line break and a date tail on the home side, which
\* the first application changes
C6_Witness ==
    /\ fn = "normalize_game_name" /\ Len(ret) = 2
    /\ FirstAt(arg.original_name) > 0
    /\ \E i \in 1..Len(arg.original_name) : arg.original_name[i] \in {"\n", "\r"}
    /\ LET home == SubSeq(arg.original_name, FirstAt(arg.original_name) + 1, Len(arg.original_name))
       IN  StripMonthTail(Strip(JoinLines(home))) # Strip(JoinLines(home))
    /\ Len(ret[1]) > 4

(***************************************************************************)
(* Dates: datetime.date, _guess_year, parse_date_title                     *)
(***************************************************************************)

\* results of a call: a value, Python's None, or an exception that leaves the function
NoneVal == [kind |-> "None"]
Raised(exc) == [kind |-> "raise", exc |-> exc]
IntVal(n) == [kind |-> "int", val |-> n]
DateVal(y, m, d) == [kind |-> "date", year |-> y, month |-> m, day |-> d]

IsLeap(y) == (y % 4 = 0) /\ ((y % 100 # 0) \/ (y % 400 = 0))

DaysInMonth(y, m) ==
    IF m = 2 THEN (IF IsLeap(y) THEN 29 ELSE 28)
    ELSE IF m \in {4, 6, 9, 11} THEN 30 ELSE 31

\* date(y, m, d) does not raise ValueError
ValidDate(y, m, d) ==
    y \in 1..9999 /\ m \in 1..12 /\ d >= 1 /\ d <= DaysInMonth(y, m)

RECURSIVE DaysBeforeMonth(_, _)
DaysBeforeMonth(y, m) ==
    IF m = 1 THEN 0 ELSE DaysBeforeMonth(y, m - 1) + DaysInMonth(y, m - 1)

\* date.toordinal
Ordinal(y, m, d) ==
    LET p == y - 1
    IN  365 * p + (p \div 4) - (p \div 100) + (p \div 400) + DaysBeforeMonth(y, m) + d

\* (date(y1, m1, d1) - date(y2, m2, d2)).days
DaysBetween(a, b) == Ordinal(a.year, a.month, a.day) - Ordinal(b.year, b.month, b.day)

\* _guess_year with the two year adjustments exchanged
_guess_year_swapped(month, day, today) ==
    IF ~ValidDate(today.year, month, day) THEN Raised("ValueError")
    ELSE LET delta == Ordinal(today.year, month, day) - Ordinal(today.year, today.month, today.day)
         IN  IF delta < -180 THEN IntVal(today.year - 1)
             ELSE IF delta > 180 THEN IntVal(today.year + 1)
             ELSE IntVal(today.year)

_guess_year(month, day, today) ==
    IF ~ValidDate(today.year, month, day) THEN Raised("ValueError")
    ELSE LET delta == Ordinal(today.year, month, day) - Ordinal(today.year, today.month, today.day)
         IN  IF delta < -180 THEN IntVal(today.year + 1)
             ELSE IF delta > 180 THEN IntVal(today.year - 1)
             ELSE IntVal(today.year)

\* mon.lower().strip(".")
StripDots(s) ==
    LET nd == {i \in 1..Len(s) : s[i] # "."}
    IN  IF nd = {} THEN <<>> ELSE SubSeq(s, SetMin(nd), SetMax(nd))

\* the keys of the mapping of _month_str_to_num, in month order with "sept" last
MonthKeys ==
    << <<"j", "a", "n">>, <<"f", "e", "b">>, <<"m", "a", "r">>, <<"a", "p", "r">>,
       <<"m", "a", "y">>, <<"j", "u", "n">>, <<"j", "u", "l">>, <<"a", "u", "g">>,
       <<"s", "e", "p">>, <<"o", "c", "t">>, <<"n", "o", "v">>, <<"d", "e", "c">>,
       <<"s", "e", "p", "t">> >>

\* mapping.get(mon, 1)
_month_str_to_num(mon) ==
    LET key == StripDots(Lower(mon))
        hit == {i \in 1..Len(MonthKeys) : MonthKeys[i] = key}
    IN  IF hit = {} THEN 1
        ELSE LET i == CHOOSE j \in hit : TRUE IN IF i = 13 THEN 9 ELSE i

\* int() of a string of decimal digits
RECURSIVE IntOf(_)
IntOf(ds) ==
    IF ds = <<>> THEN 0 ELSE 10 * IntOf(SubSeq(ds, 1, Len(ds) - 1)) + (Ord(ds[Len(ds)]) - 48)

DigitAt(s, i) == i >= 1 /\ i <= Len(s) /\ IsDigit(s[i])

\* the position after the month word at p: the alternative, then every letter that
\* follows it ([a-z]* must take the whole run for \s+ to find white space next)
MonthWordEnd(s, p) ==
    LET i == CHOOSE j \in 1..Len(MONTH_RE) : StartsAt(s, p, MONTH_RE[j])
    IN  p + Len(MONTH_RE[i]) + LetterRun(s, p + Len(MONTH_RE[i]))

\* \.?
SkipDot(s, e) == IF e <= Len(s) /\ s[e] = "." THEN e + 1 ELSE e

\* \s*: the first position from k on that holds no white space
SkipSpace(s, k) ==
    LET ns == {j \in k..Len(s) : ~IsSpace(s[j])}
    IN  IF ns = {} THEN Len(s) + 1 ELSE SetMin(ns)

\* (\d{1,2}) from d1: the position of its last digit
DayEnd(s, d1) == IF DigitAt(s, d1 + 1) THEN d1 + 1 ELSE d1

\* (?:,\s*(\d{4}))? at c: the year digits, <<>> when the group is absent
YearGroup(s, c, y1) ==
    IF c <= Len(s) /\ s[c] = "," /\ \A k \in y1..(y1 + 3) : DigitAt(s, k)
    THEN SubSeq(s, y1, y1 + 3)
    ELSE <<>>

\* \s+(\d{1,2})(?:,\s*(\d{4}))? from sp, where the month group p..sp-1 ended and the
\* white space ends at d1
DateGroups(s, p, sp, d1) ==
    IF d1 > sp /\ DigitAt(s, d1)
    THEN << [month |-> SubSeq(s, p, sp - 1),
             day |-> SubSeq(s, d1, DayEnd(s, d1)),
             year |-> YearGroup(s, DayEnd(s, d1) + 1, SkipSpace(s, DayEnd(s, d1) + 2))] >>
    ELSE <<>>

DateGroupsFrom(s, p, sp) == DateGroups(s, p, sp, SkipSpace(s, sp))

\* The match of \b(MONTH_RE)\s+(\d{1,2})(?:,\s*(\d{4}))? at position p of s, as
\* <<its groups>>; <<>> when there is no match at p.
DateMatchAt(s, p) ==
    IF WordBoundary(s, p - 1) /\ \E j \in 1..Len(MONTH_RE) : StartsAt(s, p, MONTH_RE[j])
    THEN DateGroupsFrom(s, p, SkipDot(s, MonthWordEnd(s, p)))
    ELSE <<>>

\* date(year, mon, day) under try/except, once the year is known
DateOrNone(year, mon, day) ==
    IF year.kind = "raise" THEN year
    ELSE IF ValidDate(year.val, mon, day) THEN DateVal(year.val, mon, day)
    ELSE NoneVal

\* lines 112-122 on the numbers of the match
DateOfParts(mon, day, year_str, today) ==
    DateOrNone(IF year_str # <<>> THEN IntVal(IntOf(year_str)) ELSE _guess_year(mon, day, today),
               mon, day)

DateOfGroups(m, today) ==
    DateOfParts(_month_str_to_num(m.month), IntOf(m.day), m.year, today)

\* re.search: the leftmost match
FirstDateMatch(t) ==
    LET hits == {p \in 1..Len(t) : DateMatchAt(t, p) # <<>>}
    IN  IF hits = {} THEN <<>> ELSE DateMatchAt(t, SetMin(hits))

DateOfMatch(m, today) == IF m = <<>> THEN NoneVal ELSE DateOfGroups(m[1], today)

parse_date_title(text, today) ==
    DateOfMatch(FirstDateMatch(JoinWith(Split(text), <<" ">>)), today)

(***************************************************************************)
(* The home side of a game name (SpecNorm)                                 *)
(***************************************************************************)

\* the text is of the form "away @ home", and normalize_game_name returned for it
HomeSideNormalized ==
    /\ fn = "normalize_game_name" /\ ret # <<>>
    /\ FirstAt(arg.original_name) > 0

\* the home text: what follows the first "@" of the cleaned text, trimmed
HomeText ==
    LET cleaned == Strip(JoinLines(arg.original_name))
    IN  Strip(SubSeq(cleaned, FirstAt(cleaned) + 1, Len(cleaned)))

\* the home side of the result: what follows its " @ "
HomeSide == SubSeq(ret[1], FirstAt(ret[1]) + 2, Len(ret[1]))

\* the home text holds a date: a month name followed by a day number
HoldsDate(s) == \E p \in 1..Len(s) : DateMatchAt(s, p) # <<>>

\* C16: for text of the form "away @ home" whose home text holds no date (no month
\* name followed by a day number), the home side of the result is the title-cased home
\* text with every word kept, also a word that begins with a month abbreviation.
C16_HomeSideKeptWithoutDate ==
    (HomeSideNormalized /\ ~HoldsDate(HomeText)) => HomeSide = Title(HomeText)

(***************************************************************************)
(* parse_date_title as a function of the text and the reference date       *)
(***************************************************************************)

\* str(n) for n >= 0
RECURSIVE Digits(_)
Digits(n) == IF n < 10 THEN <<Chr(48 + n)>> ELSE Digits(n \div 10) \o <<Chr(48 + (n % 10))>>

\* number of reference years, from 2024 (a leap year) on
MaxRefYears == 2
RefYears == 2024..(2023 + MaxRefYears)

\* largest day number a date text carries (the smallest is 0)
MaxDay == 32

RefDates ==
    {DateVal(y, m, 5) : y \in RefYears, m \in 1..12}
        \cup {DateVal(y, m, DaysInMonth(y, m)) : y \in RefYears, m \in 1..12}

MonthAbbrs == {Title(MONTH_RE[i]) : i \in 1..Len(MONTH_RE)}

\* other spellings a page uses
MonthWords == MonthAbbrs \cup {<<"D", "E", "C", ".">>, <<"m", "a", "r", "c", "h">>}

YearTails == {<<",", " ", "2", "0", "2", "4">>, <<",", " ", "0", "0", "0", "0">>}

\* every month with every day number and no year; the ends of the months in every
\* spelling with a year; text without a date
DateTexts ==
    {w \o <<" ">> \o Digits(d) : w \in MonthAbbrs, d \in 0..MaxDay}
        \cup {w \o <<" ">> \o Digits(d) \o y : w \in MonthWords, d \in 28..MaxDay, y \in YearTails}
        \cup {w \o <<" ">> \o Digits(d) : w \in MonthWords \ MonthAbbrs, d \in 28..MaxDay}
        \cup {<<>>, <<"T", "o", "d", "a", "y">>, <<"5", " ", "J", "a", "n">>}

DateInit ==
    /\ fn = "parse_date_title"
    /\ arg \in [text : DateTexts, today : RefDates]
    /\ ret = <<>>
    /\ ScrapeIdle /\ MainIdle

CallParseDateTitle ==
    /\ fn = "parse_date_title"
    /\ ret = <<>>
    /\ ret' = <<parse_date_title(arg.text, arg.today)>>
    /\ UNCHANGED <<fn, arg, scrapeVars, mainVars>>

DateNext == CallParseDateTitle

SpecDate == DateInit /\ [][DateNext]_vars

(***************************************************************************)
(* Properties of date parsing (SpecDate)                                   *)
(***************************************************************************)

Abs(n) == IF n < 0 THEN -n ELSE n

\* parse_date_title returned a date whose year the text did not give
YearInferred ==
    /\ fn = "parse_date_title" /\ ret # <<>> /\ ret[1].kind = "date"
    /\ \A i \in 1..Len(arg.text) : arg.text[i] # ","

\* days from the reference date to month/day of the result in year y
DistanceIn(y) ==
    Ordinal(y, ret[1].month, ret[1].day) - Ordinal(arg.today.year, arg.today.month, arg.today.day)

\* the result's year is nearest the reference date among the three candidate years,
\* a tie going to the reference year
NearestYear ==
    /\ ret[1].year \in (arg.today.year - 1)..(arg.today.year + 1)
    /\ \A y \in (arg.today.year - 1)..(arg.today.year + 1) :
          ValidDate(y, ret[1].month, ret[1].day) =>
              /\ Abs(DistanceIn(ret[1].year)) <= Abs(DistanceIn(y))
              /\ (Abs(DistanceIn(ret[1].year)) = Abs(DistanceIn(y)) /\ y = arg.today.year)
                    => ret[1].year = y

C8_ParseDateNeverRaises ==
    (fn = "parse_date_title" /\ ret # <<>>) => ret[1].kind # "raise"

(***************************************************************************)
(* parse_time_and_tz                                                       *)
(***************************************************************************)

TZ_ABBR_MAP ==
    "ET" :> "America/New_York" @@ "EST" :> "America/New_York" @@ "EDT" :> "America/New_York" @@
    "CT" :> "America/Chicago" @@ "CST" :> "America/Chicago" @@ "CDT" :> "America/Chicago" @@
    "MT" :> "America/Denver" @@ "MST" :> "America/Denver" @@ "MDT" :> "America/Denver" @@
    "PT" :> "America/Los_Angeles" @@ "PST" :> "America/Los_Angeles" @@ "PDT" :> "America/Los_Angeles"

\* SITE_DEFAULT_TZ maps every base URL to the same zone
SITE_DEFAULT_TZ == "America/New_York"

\* (AM|PM) at q, ignoring case
AmPmAt(s, q) ==
    q + 1 <= Len(s) /\ Lower(SubSeq(s, q, q + 1)) \in {<<"a", "m">>, <<"p", "m">>}

\* :(\d{2})\s*(AM|PM) from the colon position c, for an hour that starts at p
TimeFrom(s, p, c, q) ==
    IF c <= Len(s) /\ s[c] = ":" /\ DigitAt(s, c + 1) /\ DigitAt(s, c + 2) /\ AmPmAt(s, q)
    THEN << [start |-> p,
             hh |-> IntOf(SubSeq(s, p, c - 1)),
             mm |-> IntOf(SubSeq(s, c + 1, c + 2)),
             ap |-> [i \in 1..2 |-> UpperChar(s[q + i - 1])]] >>
    ELSE <<>>

\* TIME_RE at position p: \d{1,2} takes two digits if the rest then matches, else one
TimeMatchAt(s, p) ==
    IF DigitAt(s, p) /\ DigitAt(s, p + 1) /\ TimeFrom(s, p, p + 2, SkipSpace(s, p + 5)) # <<>>
    THEN TimeFrom(s, p, p + 2, SkipSpace(s, p + 5))
    ELSE IF DigitAt(s, p) THEN TimeFrom(s, p, p + 1, SkipSpace(s, p + 4))
    ELSE <<>>

\* re.search(TIME_RE, text): the leftmost match
FirstTimeMatch(s) ==
    LET hits == {p \in 1..Len(s) : TimeMatchAt(s, p) # <<>>}
    IN  IF hits = {} THEN <<>> ELSE TimeMatchAt(s, SetMin(hits))

\* lines 129-130 with the PM branch taken at noon too
Hour24_noon_plus_12(hh, ap) ==
    IF ap = <<"P", "M">> THEN hh + 12
    ELSE IF ap = <<"A", "M">> /\ hh = 12 THEN 0
    ELSE hh

\* lines 129-130
Hour24(hh, ap) ==
    IF ap = <<"P", "M">> /\ hh # 12 THEN hh + 12
    ELSE IF ap = <<"A", "M">> /\ hh = 12 THEN 0
    ELSE hh

\* TZ_ABBR_NEAR at position q of the window w: the length of the abbreviation, 0 if
\* none starts here
TzAbbrLenAt(w, q) ==
    IF ~WordBoundary(w, q - 1) \/ LowerChar(w[q]) \notin {"e", "c", "m", "p"} THEN 0
    ELSE IF /\ q + 2 <= Len(w) /\ LowerChar(w[q + 1]) \in {"s", "d"} /\ LowerChar(w[q + 2]) = "t"
            /\ WordBoundary(w, q + 2)
         THEN 3
    ELSE IF q + 1 <= Len(w) /\ LowerChar(w[q + 1]) = "t" /\ WordBoundary(w, q + 1) THEN 2
    ELSE 0

\* the zone of the first abbreviation of the window, the default if it has none
WindowZone(w, default_tz) ==
    LET hits == {q \in 1..Len(w) : TzAbbrLenAt(w, q) > 0}
    IN  IF hits = {} THEN default_tz
        ELSE TZ_ABBR_MAP[Str([i \in 1..TzAbbrLenAt(w, SetMin(hits)) |->
                                  UpperChar(w[SetMin(hits) + i - 1])])]

\* text[max(0, start-16): start+32] for a match whose first character is s[p]
TimeWindow(s, p) ==
    SubSeq(s, IF p - 16 > 1 THEN p - 16 ELSE 1, IF p + 31 < Len(s) THEN p + 31 ELSE Len(s))

\* the triple (hh, mm, tzinfo); timed is FALSE where the code returns (None, None, tz)
TimeOfMatch(s, m, default_tz) ==
    IF m = <<>> THEN [timed |-> FALSE, hh |-> 0, mm |-> 0, tz |-> default_tz]
    ELSE [timed |-> TRUE, hh |-> Hour24(m[1].hh, m[1].ap), mm |-> m[1].mm,
          tz |-> WindowZone(TimeWindow(s, m[1].start), default_tz)]

parse_time_and_tz(text, default_tz) == TimeOfMatch(text, FirstTimeMatch(text), default_tz)

(***************************************************************************)
(* parse_time_and_tz as a function of the text                             *)
(***************************************************************************)

\* the hours a time text carries run from 0 to MaxHour
MaxHour == 13

MinuteTexts == {<<"0", "0">>, <<"3", "0">>, <<"5", "9">>}

AmPmTexts == {<<"A", "M">>, <<"P", "M">>, <<"p", "m">>, <<" ", "A", "M">>, <<" ", "P", "M">>}

ClockTexts == {Digits(h) \o <<":">> \o mm \o ap : h \in 0..MaxHour, mm \in MinuteTexts, ap \in AmPmTexts}

\* what a cell holds before the time: nothing, a word, an abbreviation close by, one
\* more than 16 characters away, and the tail "PT" of a word cut by the window
BeforeTexts ==
    { <<>>,
      <<"S", "t", "a", "r", "t", " ">>,
      <<"C", "T", " ", "-", " ">>,
      <<"E", "T", ",", " ", "t", "i", "p", "o", "f", "f", " ", "o", "n", " ", "c", "o", "u", "r", "t", " ", "1", " ">>,
      <<"x", "P", "T", " ", "k", "i", "c", "k", "o", "f", "f", " ", "i", "s", " ", "a", "t", " ">> }

\* what a cell holds after the time: nothing, an abbreviation, a word, an
\* abbreviation inside a word, and one more than 32 characters after the start
AfterTexts ==
    { <<>>,
      <<" ", "E", "T">>,
      <<" ", "P", "T">>,
      <<" ", "(", "p", "d", "t", ")">>,
      <<" ", "l", "o", "c", "a", "l">>,
      <<" ", "C", "T", "X">>,
      <<" ", "-", " ", "g", "a", "t", "e", "s", " ", "o", "p", "e", "n", " ", "o", "n", "e", " ",
        "h", "o", "u", "r", " ", "e", "a", "r", "l", "y", " ", "M", "T">> }

\* text without a time
UntimedTexts == {<<>>, <<"T", "B", "D">>, <<"7", " ", "P", "M", " ", "E", "T">>, <<"1", "9", ":", "3", "0", " ", "P", "T">>}

TimeTexts == {b \o c \o a : b \in BeforeTexts, c \in ClockTexts, a \in AfterTexts} \cup UntimedTexts

TimeInit ==
    /\ fn = "parse_time_and_tz"
    /\ arg \in [text : TimeTexts, default_tz : {SITE_DEFAULT_TZ}]
    /\ ret = <<>>
    /\ ScrapeIdle /\ MainIdle

CallParseTimeAndTz ==
    /\ fn = "parse_time_and_tz"
    /\ ret = <<>>
    /\ ret' = <<parse_time_and_tz(arg.text, arg.default_tz)>>
    /\ UNCHANGED <<fn, arg, scrapeVars, mainVars>>

TimeNext == CallParseTimeAndTz

SpecTime == TimeInit /\ [][TimeNext]_vars

(***************************************************************************)
(* Properties of time parsing (SpecTime)                                   *)
(***************************************************************************)

\* parse_time_and_tz returned for a text in which a time matched
TimeMatched == fn = "parse_time_and_tz" /\ ret # <<>> /\ ret[1].timed

\* the position of the first character of the matched time, and of its last
MatchStart == FirstTimeMatch(arg.text)[1].start
MatchStop == SetMin({q \in MatchStart..Len(arg.text) : AmPmAt(arg.text, q)}) + 1

\* the window around the match, the position in the text of its first character, and
\* the positions in the window where a recognised abbreviation starts
Window == TimeWindow(arg.text, MatchStart)
WindowStart == IF MatchStart - 16 > 1 THEN MatchStart - 16 ELSE 1
AbbrsInWindow == {q \in 1..Len(Window) : TzAbbrLenAt(Window, q) > 0}

\* the zone of the abbreviation at q of the window
ZoneOfAbbr(q) ==
    TZ_ABBR_MAP[Str([i \in 1..TzAbbrLenAt(Window, q) |-> UpperChar(Window[q + i - 1])])]

\* the number of characters from the abbreviation at q of the window to the matched
\* time: to its start if the abbreviation comes before it, from its end if after
DistanceToMatch(q) ==
    LET first == WindowStart + q - 1
        last == first + TzAbbrLenAt(Window, q) - 1
    IN  IF last < MatchStart THEN MatchStart - last ELSE first - MatchStop

\* C11: when a recognised abbreviation lies in the window around the matched time
\* (16 characters before, 32 after), parse_time_and_tz returns the zone of the
\* abbreviation nearest the matched time; it returns the site default only when the
\* window holds no abbreviation.
C11_NearestAbbreviationWins ==
    TimeMatched =>
        IF AbbrsInWindow = {} THEN ret[1].tz = arg.default_tz
        ELSE \E q \in AbbrsInWindow :
                /\ \A o \in AbbrsInWindow : DistanceToMatch(q) <= DistanceToMatch(o)
                /\ ret[1].tz = ZoneOfAbbr(q)

\* the hour the claim gives for hour h of the 12-hour clock
ClockHour(h, ap) ==
    CASE h = 12 /\ ap = <<"A", "M">> -> 0
      [] h = 12 /\ ap = <<"P", "M">> -> 12
      [] h # 12 /\ ap = <<"P", "M">> -> h + 12
      [] h # 12 /\ ap = <<"A", "M">> -> h

\* C12: for a matched time H:MM AM/PM with H in 1..12 and MM in 0..59 the result is
\* the 24-hour pair: 12 AM is hour 0, 12 PM hour 12, another PM hour H+12, another AM
\* hour H, the minutes unchanged, and the hour lies in 0..23.
C12_TwentyFourHourPair ==
    TimeMatched =>
        LET m == FirstTimeMatch(arg.text)[1]
        IN  (m.hh \in 1..12 /\ m.mm \in 0..59) =>
                /\ ret[1].hh = ClockHour(m.hh, m.ap)
                /\ ret[1].mm = m.mm
                /\ ret[1].hh \in 0..23

\* "Start 12:30 PM PT" gives 12:30, the noon hour that PM leaves alone
C12_Witness ==
    /\ TimeMatched
    /\ arg.text = <<"S", "t", "a", "r", "t", " ", "1", "2", ":", "3", "0", " ", "P", "M", " ", "P", "T">>
    /\ ret[1].hh = 12 /\ ret[1].mm = 30

(***************************************************************************)
(* scrape_ppv_league: league wrappers, slug resolution, event assembly     *)
(***************************************************************************)

\* the four wrappers scrape_nfl_league, scrape_nhl_league, scrape_mlb_league,
\* scrape_nba_league, named by their league
Leagues == {"NFL", "NHL", "MLB", "NBA"}

\* the nickname_only argument each wrapper passes
nickname_only(lg) == lg \in {"MLB", "NBA"}

FULL_TEAM_SLUGS_NFL == {NFL_TEAM_SLUGS[i].val : i \in 1..Len(NFL_TEAM_SLUGS)}
FULL_TEAM_SLUGS_NHL == {NHL_TEAM_SLUGS[i].val : i \in 1..Len(NHL_TEAM_SLUGS)}

\* allowed_slugs is not None
HasAllowList(lg) == lg \in {"NFL", "NHL"}

\* the allowed_slugs argument of the wrappers that pass one
allowed_slugs(lg) == IF lg = "NFL" THEN FULL_TEAM_SLUGS_NFL ELSE FULL_TEAM_SLUGS_NHL

\* first_verified probes the slug: not (allowed_slugs is not None and slug not in allowed_slugs)
Allowed(lg, slug) == ~HasAllowList(lg) \/ slug \in allowed_slugs(lg)

\* PPV_STREAM_URL_PATTERN.format(team_name=slug)
PPV_STREAM_URL(slug) == "https://gg.poocloud.in/" \o slug \o "/tracks-v1a1/mono.ts.m3u8"

\* first_verified: the position of the next slug of cs, from i on, that it probes; 0 if
\* the loop ends without another probe
first_verified_next(lg, cs, i) ==
    LET js == {j \in i..Len(cs) : Allowed(lg, cs[j])}
    IN  IF js = {} THEN 0 ELSE SetMin(js)

\* dt_slug.startswith("nba_")
StartsWithNba(dt_slug) == Len(dt_slug) >= 4 /\ SubSeq(dt_slug, 1, 4) = <<"n", "b", "a", "_">>

\* dt_cands of resolve_team_slug for a truthy data_team
dt_cands(data_team, nick) ==
    IF nick /\ ~StartsWithNba(_slug(data_team))
    THEN _expand_nba_candidates(<<Str(_slug(data_team))>>)
    ELSE <<Str(_slug(data_team))>>

\* a point of resolve_team_slug: first_verified number `stage` is about to probe cs[idx];
\* idx = 0 stands for "resolve_team_slug returns None"
Point(st, cs, j) == [stage |-> st, cands |-> cs, idx |-> j]
NoPoint == Point("", <<>>, 0)

\* the page-key step: skipped when data_team is falsy
SeekKey(lg, r) ==
    IF r.team_key = <<>> THEN NoPoint
    ELSE IF first_verified_next(lg, dt_cands(r.team_key, nickname_only(lg)), 1) = 0 THEN NoPoint
    ELSE Point("key", dt_cands(r.team_key, nickname_only(lg)),
               first_verified_next(lg, dt_cands(r.team_key, nickname_only(lg)), 1))

\* resolve_team_slug whose home step falls through to the page key, skipping the away step
SeekHome_skips_away(lg, r, cs, i) ==
    IF first_verified_next(lg, cs, i) > 0 THEN Point("home", cs, first_verified_next(lg, cs, i))
    ELSE SeekKey(lg, r)

\* the away step from position i of its list cs, then the page-key step
SeekAway(lg, r, cs, i) ==
    IF first_verified_next(lg, cs, i) > 0 THEN Point("away", cs, first_verified_next(lg, cs, i))
    ELSE SeekKey(lg, r)

\* the home step from position i of its list cs, then the away step
SeekHome(lg, r, cs, i) ==
    IF first_verified_next(lg, cs, i) > 0 THEN Point("home", cs, first_verified_next(lg, cs, i))
    ELSE SeekAway(lg, r, build_candidates(r.away_team, nickname_only(lg)), 1)

\* where resolve_team_slug goes after the probe of cs[i] in step st answered False
SeekFrom(lg, r, st, cs, i) ==
    IF st = "home" THEN SeekHome(lg, r, cs, i + 1)
    ELSE IF st = "away" THEN SeekAway(lg, r, cs, i + 1)
    ELSE IF first_verified_next(lg, cs, i + 1) = 0 THEN NoPoint
    ELSE Point("key", cs, first_verified_next(lg, cs, i + 1))

\* where resolve_team_slug goes after step st returned a falsy value ("if home_first:",
\* "if away_ok:", "if dt_ok:")
AfterStage(lg, r, st) ==
    IF st = "home" THEN SeekAway(lg, r, build_candidates(r.away_team, nickname_only(lg)), 1)
    ELSE IF st = "away" THEN SeekKey(lg, r)
    ELSE NoPoint

\* the backup slug is taken whatever the home text is
backup_accepted_unchecked(backup_slug, ok, home_team, nick) == ok

\* lines 643-646: the backup slug becomes resolved_slug
backup_accepted(backup_slug, ok, home_team, nick) ==
    ok /\ backup_slug \in _home_match_candidates(home_team, nick)

\* the reference day, today_local
Today == DateVal(2025, 1, 5)

\* "inline_date or current_date": a date is always truthy
GameDate(inline_date, cur) == IF inline_date.kind = "date" THEN inline_date ELSE cur

\* lines 674-680: the site-zone instant of the game, None when the date or the time is
\* missing or datetime() raises ValueError; astimezone(LOCAL_TZ) is a fixed conversion of
\* this instant
SiteDateTime(game_date, t) ==
    IF game_date.kind = "date" /\ t.timed /\ t.hh <= 23 /\ t.mm <= 59
    THEN [kind |-> "datetime", year |-> game_date.year, month |-> game_date.month,
          day |-> game_date.day, hh |-> t.hh, mm |-> t.mm, tz |-> t.tz]
    ELSE NoneVal

\* the display name: the game name alone without an instant, else the name followed by
\* the strftime of the instant, kept as the pair
format_game_datetime(game_name, dt_local) == [game |-> game_name, at |-> dt_local]

\* f"{away_team} @ {home_team}"
AwayAtHome(r) == r.away_team \o <<" ", "@", " ">> \o r.home_team

\* match_name of a row whose inline date parse returned
match_name(r, cur) ==
    format_game_datetime(
        normalize_game_name(AwayAtHome(r)),
        SiteDateTime(GameDate(parse_date_title(r.row_text, Today), cur),
                     parse_time_and_tz(r.row_text, SITE_DEFAULT_TZ)))

\* the dict appended to results, its address built from the home text instead of
\* resolved_slug
StreamEvent_of_home_text(lg, r, cur, slug) ==
    [name |-> match_name(r, cur), url |-> PPV_STREAM_URL(Str(_slug(r.home_team))),
     group |-> lg \o "Webcast - Live Games"]

\* the dict appended to results
StreamEvent(lg, r, cur, slug) ==
    [name |-> match_name(r, cur), url |-> PPV_STREAM_URL(slug),
     group |-> lg \o "Webcast - Live Games"]

(***************************************************************************)
(* scrape_ppv_league as a state machine: one step per await                *)
(***************************************************************************)

\* most game rows of a schedule table
MaxRows == 1

\* the cells of a game row: team texts (home "Carolina Panthers", "Lakers"; away
\* "Kings"), the watch button's data-team (absent, "lakers", "dallascowboys", "-"), the
\* backup element's slug ("" when absent), the text of the time cell ("8:20 PM ET",
\* "Feb 30 8:20 PM")
HomeTexts ==
    {<<"C", "a", "r", "o", "l", "i", "n", "a", " ", "P", "a", "n", "t", "h", "e", "r", "s">>,
     <<"L", "a", "k", "e", "r", "s">>}
AwayTexts == {<<"K", "i", "n", "g", "s">>}
TeamKeys ==
    {<<>>,
     <<"l", "a", "k", "e", "r", "s">>,
     <<"d", "a", "l", "l", "a", "s", "c", "o", "w", "b", "o", "y", "s">>,
     <<"-">>}
BackupSlugs == {"", "lakers"}
RowTexts ==
    {<<"8", ":", "2", "0", " ", "P", "M", " ", "E", "T">>,
     <<"F", "e", "b", " ", "3", "0", " ", "8", ":", "2", "0", " ", "P", "M">>}
GameRows ==
    [away_team : AwayTexts, home_team : HomeTexts, team_key : TeamKeys,
     backup_slug : BackupSlugs, row_text : RowTexts]

\* the text of a date/title/header row: "Sunday, Jan 5", "Feb 30"
HeaderTexts ==
    {<<"S", "u", "n", "d", "a", "y", ",", " ", "J", "a", "n", " ", "5">>,
     <<"F", "e", "b", " ", "3", "0">>}

ScrapeInit ==
    /\ PureIdle /\ MainIdle
    /\ league \in Leagues
    /\ pc = "fetch"
    /\ rowsRead = 0
    /\ current_date = NoneVal
    /\ row = NoRow
    /\ stage = "" /\ fv_cands = <<>> /\ idx = 0
    /\ probes = <<>>
    /\ resolved = <<>>
    /\ results = <<>>

\* the record of one verify_stream_url call
Probe(st, slug, ok) == [stage |-> st, slug |-> slug, ok |-> ok]

\* resolved_slug with the statement that assigned it: line 646 (backup) or 649 (resolver)
ResolvedBy(slug, by) == <<[slug |-> slug, by |-> by]>>

\* no first_verified call is running
LeaveResolver == stage' = "" /\ fv_cands' = <<>> /\ idx' = 0

\* lines 657-682, from "if not resolved_slug" to the await of the final probe: the row is
\* dropped, or the inline date parse raises, or the event is assembled
AfterResolution(r, res) ==
    /\ resolved' = res
    /\ LeaveResolver
    /\ pc' = IF res = <<>> THEN "rows"
             ELSE IF parse_date_title(r.row_text, Today).kind = "raise" THEN "raised"
             ELSE "verify"

\* resolve_team_slug moves to its next probe, or returns None
Continue(r, pt) ==
    IF pt.idx = 0 THEN AfterResolution(r, <<>>)
    ELSE /\ pc' = "resolve"
         /\ stage' = pt.stage /\ fv_cands' = pt.cands /\ idx' = pt.idx
         /\ resolved' = <<>>

\* the call of resolve_team_slug up to its first await
StartResolver(lg, r) ==
    Continue(r, SeekHome(lg, r, build_candidates(r.home_team, nickname_only(lg)), 1))

\* session.get(base_url) raises: return []
FetchFails ==
    /\ pc = "fetch"
    /\ pc' = "returned"
    /\ UNCHANGED <<league, rowsRead, current_date, row, stage, fv_cands, idx, probes, resolved,
                   results, pureVars, mainVars>>

\* the page has no table of class schedule_container: return []
NoScheduleTable ==
    /\ pc = "fetch"
    /\ pc' = "returned"
    /\ UNCHANGED <<league, rowsRead, current_date, row, stage, fv_cands, idx, probes, resolved,
                   results, pureVars, mainVars>>

\* the page is fetched and holds the schedule table: the loop over its rows starts
FetchPage ==
    /\ pc = "fetch"
    /\ pc' = "rows"
    /\ UNCHANGED <<league, rowsRead, current_date, row, stage, fv_cands, idx, probes, resolved,
                   results, pureVars, mainVars>>

\* a row of class date/title/header: parse_date_title sets current_date, or raises
DateRow ==
    /\ pc = "rows"
    /\ \E text \in HeaderTexts :
         LET d == parse_date_title(text, Today)
         IN  /\ pc' = IF d.kind = "raise" THEN "raised" ELSE "rows"
             /\ current_date' = IF d.kind = "date" THEN d ELSE current_date
    /\ UNCHANGED <<league, rowsRead, row, stage, fv_cands, idx, probes, resolved, results,
                   pureVars, mainVars>>

\* a game row is read, up to the first await of its processing
GameRow ==
    /\ pc = "rows"
    /\ rowsRead < MaxRows
    /\ rowsRead' = rowsRead + 1
    /\ probes' = <<>>
    /\ \E r \in GameRows :
         /\ row' = r
         /\ IF r.backup_slug # ""
            THEN pc' = "backup" /\ resolved' = <<>> /\ LeaveResolver
            ELSE StartResolver(league, r)
    /\ UNCHANGED <<league, current_date, results, pureVars, mainVars>>

\* the probe of the backup slug answers
ProbeBackup ==
    /\ pc = "backup"
    /\ \E ok \in BOOLEAN :
         /\ probes' = Append(probes, Probe("backup", row.backup_slug, ok))
         /\ IF backup_accepted(row.backup_slug, ok, row.home_team, nickname_only(league))
            THEN AfterResolution(row, ResolvedBy(row.backup_slug, "backup"))
            ELSE StartResolver(league, row)
    /\ UNCHANGED <<league, rowsRead, current_date, row, results, pureVars, mainVars>>

\* the probe first_verified is waiting for answers
ProbeCandidate ==
    /\ pc = "resolve"
    /\ \E ok \in BOOLEAN :
         /\ probes' = Append(probes, Probe(stage, fv_cands[idx], ok))
         /\ IF ok /\ fv_cands[idx] # ""
            THEN AfterResolution(row, ResolvedBy(fv_cands[idx], "resolver"))
            ELSE IF ok THEN Continue(row, AfterStage(league, row, stage))
            ELSE Continue(row, SeekFrom(league, row, stage, fv_cands, idx))
    /\ UNCHANGED <<league, rowsRead, current_date, row, results, pureVars, mainVars>>

\* line 684: the probe of the assembled stream address answers
FinalVerify ==
    /\ pc = "verify"
    /\ \E ok \in BOOLEAN :
         /\ probes' = Append(probes, Probe("final", resolved[1].slug, ok))
         /\ results' = IF ok
                       THEN Append(results,
                                   StreamEvent(league, row, current_date, resolved[1].slug))
                       ELSE results
    /\ pc' = "rows"
    /\ UNCHANGED <<league, rowsRead, current_date, row, stage, fv_cands, idx, resolved,
                   pureVars, mainVars>>

\* the table has no more rows: return results
Return ==
    /\ pc = "rows"
    /\ pc' = "returned"
    /\ UNCHANGED <<league, rowsRead, current_date, row, stage, fv_cands, idx, probes, resolved,
                   results, pureVars, mainVars>>

Next ==
    \/ FetchFails \/ NoScheduleTable \/ FetchPage \/ DateRow \/ GameRow
    \/ ProbeBackup \/ ProbeCandidate \/ FinalVerify \/ Return

Spec == ScrapeInit /\ [][Next]_vars

(***************************************************************************)
(* Properties of slug resolution (Spec)                                    *)
(***************************************************************************)

\* the slugs of cs that pass the allow-list, each tagged with its step
Tagged(lg, st, cs) ==
    LET keep == SelectSeq(cs, LAMBDA x : Allowed(lg, x))
    IN  [i \in 1..Len(keep) |-> [stage |-> st, slug |-> keep[i]]]

\* the probes of a full run of the resolver in which every probe fails: home candidates,
\* away candidates, then the candidates derived from the page key
Schedule(lg, r) ==
    Tagged(lg, "home", build_candidates(r.home_team, nickname_only(lg)))
        \o Tagged(lg, "away", build_candidates(r.away_team, nickname_only(lg)))
        \o Tagged(lg, "key", IF r.team_key = <<>> THEN <<>>
                             ELSE dt_cands(r.team_key, nickname_only(lg)))

\* the probes resolve_team_slug issued for the current row
ResolverProbes == SelectSeq(probes, LAMBDA p : p.stage \in {"home", "away", "key"})

ResolvedByBackup == resolved # <<>> /\ resolved[1].by = "backup"

\* resolve_team_slug was called for the current row and has returned
ResolverReturned ==
    /\ pc \in {"verify", "rows", "raised", "returned"}
    /\ row # NoRow
    /\ ~ResolvedByBackup

\* the probes issued so far are a prefix of the schedule S and only the last can have
\* succeeded
FollowsSchedule(P, S) ==
    /\ Len(P) <= Len(S)
    /\ \A i \in 1..Len(P) : P[i].stage = S[i].stage /\ P[i].slug = S[i].slug
    /\ \A i \in 1..(Len(P) - 1) : ~P[i].ok

\* the probe the resolver is waiting on is the next of the schedule
NextOfSchedule(P, S) ==
    pc = "resolve" =>
        /\ Len(P) < Len(S)
        /\ stage = S[Len(P) + 1].stage /\ fv_cands[idx] = S[Len(P) + 1].slug

\* the resolver returned the slug of its successful probe if that slug is not empty, and
\* None otherwise, having then gone through all of S
ReturnsFirstSuccess(P, S) ==
    ResolverReturned =>
        IF Len(P) > 0 /\ P[Len(P)].ok /\ P[Len(P)].slug # ""
        THEN resolved = ResolvedBy(P[Len(P)].slug, "resolver")
        ELSE resolved = <<>> /\ Len(P) = Len(S)

\* the resolver returned the slug of its successful probe whatever it is, None when
\* every probe of S failed
ReturnsAnySuccess(P, S) ==
    ResolverReturned =>
        IF Len(P) > 0 /\ P[Len(P)].ok
        THEN resolved = ResolvedBy(P[Len(P)].slug, "resolver")
        ELSE resolved = <<>> /\ Len(P) = Len(S)

\* C1 as stated: the resolver probes the allow-listed home candidates in order, then the
\* away candidates, then the slugified page key, returns the first slug whose probe
\* succeeds, and issues no probe after the first success.
C1_ReturnsEverySuccess ==
    /\ FollowsSchedule(ResolverProbes, Schedule(league, row))
    /\ ReturnsAnySuccess(ResolverProbes, Schedule(league, row))

\* C1 amended: the resolver probes the allow-listed home candidates in order, then the
\* away candidates, then the candidates of the slugified page key, issues no probe after
\* the first success, and returns the slug of that success unless that slug is empty: a
\* page key whose slug is empty is probed last and yields absence even when its probe
\* succeeds.
C1_ResolverPrecedence ==
    /\ FollowsSchedule(ResolverProbes, Schedule(league, row))
    /\ NextOfSchedule(ResolverProbes, Schedule(league, row))
    /\ ReturnsFirstSuccess(ResolverProbes, Schedule(league, row))

\* C1 witness: a row with a page key whose home probes all failed and whose away probe
\* succeeded: the away slug is returned and the key was never probed
C1_Witness ==
    /\ pc = "verify"
    /\ row.team_key # <<>>
    /\ \E i \in 1..Len(ResolverProbes) : ResolverProbes[i].stage = "home"
    /\ ResolverProbes[Len(ResolverProbes)].stage = "away"
    /\ ResolverProbes[Len(ResolverProbes)].ok
    /\ resolved = ResolvedBy(ResolverProbes[Len(ResolverProbes)].slug, "resolver")

BackupProbed == Len(probes) > 0 /\ probes[1].stage = "backup"

BackupIsHomeCandidate ==
    row.backup_slug \in _home_match_candidates(row.home_team, nickname_only(league))

\* C2: the backup slug becomes the resolved slug only if its probe succeeded and it is a
\* home candidate for the row's home text and mode; when its probe fails or it is not a
\* home candidate, the row is resolved by the probes the resolver makes for the same row
\* without a backup slug.
C2_BackupOnlyIfHomeCandidate ==
    /\ ResolvedByBackup =>
           /\ BackupProbed /\ probes[1].ok /\ BackupIsHomeCandidate
           /\ resolved[1].slug = row.backup_slug
    /\ (BackupProbed /\ probes[1].ok /\ BackupIsHomeCandidate) => ResolvedByBackup
    /\ (BackupProbed /\ ~(probes[1].ok /\ BackupIsHomeCandidate)) =>
           /\ FollowsSchedule(ResolverProbes, Schedule(league, [row EXCEPT !.backup_slug = ""]))
           /\ ReturnsFirstSuccess(ResolverProbes,
                                  Schedule(league, [row EXCEPT !.backup_slug = ""]))

\* C2 witness: a backup slug answered 200 but is no home candidate, and the row was then
\* resolved by the resolver
C2_Witness ==
    /\ BackupProbed /\ probes[1].ok /\ ~BackupIsHomeCandidate
    /\ resolved # <<>> /\ resolved[1].by = "resolver"

(***************************************************************************)
(* Properties of the rows of a schedule table (Spec)                       *)
(***************************************************************************)

\* the index in probes of the successful probe that made its slug the row's
\* resolved_slug: every probe after it is the probe of line 684
TakenAt == IF probes[Len(probes)].stage = "final" THEN Len(probes) - 1 ELSE Len(probes)

\* the processing of the current row is over
RowDone == pc \in {"rows", "returned"} /\ rowsRead > 0

\* C13: once a probe of a slug has succeeded and the slug is taken as the row's
\* resolved slug, no further probe of that slug is issued for the row, and the row's
\* event is emitted whatever a later probe would answer.
C13_NoProbeAfterResolution ==
    resolved # <<>> =>
        /\ \A j \in (TakenAt + 1)..Len(probes) : probes[j].slug # resolved[1].slug
        /\ RowDone =>
              /\ results # <<>>
              /\ results[Len(results)] = StreamEvent(league, row, current_date, resolved[1].slug)

\* C14: a row emits an event only if slug resolution returned a slug, a row all of
\* whose probes (backup slug, home candidates, away candidates, page key) fail emits
\* nothing, and the address of an emitted event is the probe template instantiated
\* with the resolved slug, whose probe succeeded earlier in the processing of the row.
C14_EmitsOnlyVerifiedSlug ==
    [][results' # results =>
          /\ resolved # <<>>
          /\ \E i \in 1..Len(probes) :
                /\ probes[i].ok /\ probes[i].slug = resolved[1].slug
                /\ probes[i].stage \in {"backup", "home", "away", "key"}
          /\ \E e \in {results'[Len(results')]} :
                /\ results' = Append(results, e)
                /\ e.url = PPV_STREAM_URL(resolved[1].slug)]_vars

\* a row whose home candidates all failed and whose away candidate resolved it emitted
\* its event
C14_Witness ==
    /\ RowDone /\ Len(results) = 1 /\ resolved # <<>>
    /\ results[1].url = PPV_STREAM_URL(resolved[1].slug)
    /\ probes[TakenAt].stage = "away" /\ probes[TakenAt].ok
    /\ \E i \in 1..Len(probes) : probes[i].stage = "home" /\ ~probes[i].ok

\* C15: under an allow-list the slug of every emitted event is a member of the
\* allow-list, whichever path resolved it.
C15_EventSlugsInAllowList ==
    HasAllowList(league) =>
        \A k \in 1..Len(results) :
            \E slug \in allowed_slugs(league) : results[k].url = PPV_STREAM_URL(slug)

(***************************************************************************)
(* scrape_league: the found dict and the sorted result list                *)
(***************************************************************************)

\* a < b for Python strings: by code point at the first difference, a prefix first
LexLess(a, b) ==
    \E i \in 1..Len(b) :
        /\ \A j \in 1..(i - 1) : j <= Len(a) /\ a[j] = b[j]
        /\ (i > Len(a) \/ Ord(a[i]) < Ord(b[i]))

\* found[k] = v on a dict kept as its items in insertion order
DictPut(found, k, v) ==
    IF \E i \in 1..Len(found) : found[i].key = k
    THEN [i \in 1..Len(found) |-> IF found[i].key = k THEN [key |-> k, val |-> v]
                                  ELSE found[i]]
    ELSE Append(found, [key |-> k, val |-> v])

\* sorted(found.items()): the keys are distinct, so the key alone orders the items
RECURSIVE SortedItems(_)
SortedItems(found) ==
    IF found = <<>> THEN <<>>
    ELSE LET least == CHOOSE i \in 1..Len(found) :
                          \A j \in 1..Len(found) : j = i \/ LexLess(found[i].key, found[j].key)
         IN  <<found[least]>>
                 \o SortedItems(SelectSeq(found, LAMBDA it : it.key # found[least].key))

\* the names of CHANNEL_METADATA: "nflnetwork", "nflredzone", "espnusa"
CHANNEL_METADATA ==
    << [key |-> <<"n", "f", "l", "n", "e", "t", "w", "o", "r", "k">>,
        val |-> <<"N", "F", "L", " ", "N", "e", "t", "w", "o", "r", "k">>],
       [key |-> <<"n", "f", "l", "r", "e", "d", "z", "o", "n", "e">>,
        val |-> <<"N", "F", "L", " ", "R", "e", "d", "Z", "o", "n", "e">>],
       [key |-> <<"e", "s", "p", "n", "u", "s", "a">>, val |-> <<"E", "S", "P", "N">>] >>

\* display = key if "@" in key else (info.get("name") or key)
DisplayOf(key) == IF FirstAt(key) > 0 THEN key ELSE GetSeq(CHANNEL_METADATA, key, key)

\* the loop over the rows whose stream was found: found[name] = (stream_url, "Live
\* Games", dt_local)
RECURSIVE FoundFrom(_, _)
FoundFrom(found, rows) ==
    IF rows = <<>> THEN found
    ELSE FoundFrom(DictPut(found, rows[1].name,
                           [stream_url |-> rows[1].stream_url, dt_local |-> NoneVal]),
                   Tail(rows))

\* the dict appended to results for one item of sorted(found.items()); group_prefix is
\* the league name followed by "Webcast"
SiteEvent(lg, item) ==
    [name |-> format_game_datetime(normalize_game_name(DisplayOf(item.key)), item.val.dt_local),
     url |-> item.val.stream_url,
     group |-> lg \o "Webcast - Live Games"]

\* the list scrape_league returns for the rows whose stream was found
scrape_league_results(lg, rows) ==
    LET items == SortedItems(FoundFrom(<<>>, rows))
    IN  [i \in 1..Len(items) |-> SiteEvent(lg, items[i])]

\* the list scrape_ppv_league returns for the rows that resolved and passed the final
\* probe, in table order
ppv_results(lg, live) ==
    [i \in 1..Len(live) |-> StreamEvent(lg, live[i].row, NoneVal, live[i].slug)]

(***************************************************************************)
(* main: six league tasks under asyncio.gather, then write_playlist        *)
(***************************************************************************)

\* the tasks list of main, in its order: the league and the scraper of each
Tasks == 1..6
TaskLeague == <<"NFL", "NFL", "NHL", "MLB", "MLS", "NBA">>
TaskScraper ==
    <<"scrape_ppv_league", "scrape_league", "scrape_ppv_league", "scrape_ppv_league",
      "scrape_league", "scrape_ppv_league">>

\* most events found in a pass, and most rows a page contributes
MaxEvents == 2

\* the sequences over S of length at most n
SeqsUpTo(S, n) == UNION {[1..k -> S] : k \in 0..n}

\* game rows without page key, backup slug or date, for the pages of a pass
PlainRows ==
    {r \in GameRows : r.team_key = <<>> /\ r.backup_slug = ""
                      /\ parse_date_title(r.row_text, Today).kind = "None"}

\* a row that emits an event in league lg, with the slug its first probe verifies
EmittingRows(lg) ==
    {[row |-> r, slug |-> Schedule(lg, r)[1].slug] :
        r \in {x \in PlainRows : Schedule(lg, x) # <<>>}}

\* the lists a scrape_ppv_league task can return: [] for an unreachable site, a page
\* without schedule table or without a verified row, else the events of its rows
PpvResults ==
    [lg \in Leagues |-> {ppv_results(lg, live) : live \in SeqsUpTo(EmittingRows(lg), MaxEvents)}]

\* the link text and the stream found for a row of a scrape_league page: "Kings @ Lakers",
\* "Kings @ Carolina Panthers"
SiteNames == {AwayAtHome(r) : r \in PlainRows}
SiteStreams == {"https://cdn.example/1/index.m3u8", "https://cdn.example/2/index.m3u8"}
SiteRows == [name : SiteNames, stream_url : SiteStreams]

\* the lists a scrape_league task can return
SiteResults ==
    [lg \in {"NFL", "MLS"} |->
        {scrape_league_results(lg, rows) : rows \in SeqsUpTo(SiteRows, MaxEvents)}]

\* the header and row texts on which parse_date_title raises
RaisingTexts ==
    {text \in HeaderTexts \cup RowTexts : parse_date_title(text, Today).kind = "raise"}

RECURSIVE Flatten(_)
\* [s for league in results for s in league]
Flatten(lists) == IF lists = <<>> THEN <<>> ELSE lists[1] \o Flatten(Tail(lists))

\* the events returned so far
FoundSoFar == Len(Flatten(taskResult))

MainInit ==
    /\ PureIdle /\ ScrapeIdle
    /\ taskState = [t \in Tasks |-> "pending"]
    /\ taskResult = [t \in Tasks |-> <<>>]
    /\ mainPc = "gather"
    /\ playlist = <<>>

\* a scrape_ppv_league task returns its results
PpvTaskReturns(t) ==
    /\ mainPc = "gather" /\ taskState[t] = "pending"
    /\ TaskScraper[t] = "scrape_ppv_league"
    /\ \E res \in PpvResults[TaskLeague[t]] :
         /\ FoundSoFar + Len(res) <= MaxEvents
         /\ taskResult' = [taskResult EXCEPT ![t] = res]
    /\ taskState' = [taskState EXCEPT ![t] = "returned"]
    /\ UNCHANGED <<mainPc, playlist, pureVars, scrapeVars>>

\* parse_date_title raises on a header or on a row text of the page: the exception
\* leaves scrape_ppv_league
PpvTaskRaises(t) ==
    /\ mainPc = "gather" /\ taskState[t] = "pending"
    /\ TaskScraper[t] = "scrape_ppv_league"
    /\ RaisingTexts # {}
    /\ taskState' = [taskState EXCEPT ![t] = "raised"]
    /\ UNCHANGED <<taskResult, mainPc, playlist, pureVars, scrapeVars>>

\* a scrape_league task returns its results
SiteTaskReturns(t) ==
    /\ mainPc = "gather" /\ taskState[t] = "pending"
    /\ TaskScraper[t] = "scrape_league"
    /\ \E res \in SiteResults[TaskLeague[t]] :
         /\ FoundSoFar + Len(res) <= MaxEvents
         /\ taskResult' = [taskResult EXCEPT ![t] = res]
    /\ taskState' = [taskState EXCEPT ![t] = "returned"]
    /\ UNCHANGED <<mainPc, playlist, pureVars, scrapeVars>>

\* page.goto(base_url) raises (site unreachable, timeout): browser.close() runs in the
\* finally block and the exception leaves scrape_league
SiteTaskRaises(t) ==
    /\ mainPc = "gather" /\ taskState[t] = "pending"
    /\ TaskScraper[t] = "scrape_league"
    /\ taskState' = [taskState EXCEPT ![t] = "raised"]
    /\ UNCHANGED <<taskResult, mainPc, playlist, pureVars, scrapeVars>>

\* write_playlist: no file for an empty list, else the events in the order given
write_playlist(streams) == IF streams = <<>> THEN <<>> ELSE <<streams>>

\* every task returned: gather returns their lists in the order of the tasks list,
\* main flattens them and writes the playlist
GatherReturns ==
    /\ mainPc = "gather"
    /\ \A t \in Tasks : taskState[t] = "returned"
    /\ playlist' = write_playlist(Flatten(taskResult))
    /\ mainPc' = "done"
    /\ UNCHANGED <<taskState, taskResult, pureVars, scrapeVars>>

\* a task raised: gather raises its exception in main, which leaves main before
\* write_playlist; asyncio.run cancels the tasks still pending
GatherRaises ==
    /\ mainPc = "gather"
    /\ \E t \in Tasks : taskState[t] = "raised"
    /\ mainPc' = "failed"
    /\ taskState' = [t \in Tasks |-> IF taskState[t] = "pending" THEN "cancelled"
                                     ELSE taskState[t]]
    /\ UNCHANGED <<taskResult, playlist, pureVars, scrapeVars>>

MainNext ==
    \/ \E t \in Tasks : PpvTaskReturns(t)
    \/ \E t \in Tasks : PpvTaskRaises(t)
    \/ \E t \in Tasks : SiteTaskReturns(t)
    \/ \E t \in Tasks : SiteTaskRaises(t)
    \/ GatherReturns
    \/ GatherRaises

SpecMain == MainInit /\ [][MainNext]_vars

(***************************************************************************)
(* Properties of a whole pass (SpecMain)                                   *)
(***************************************************************************)

\* the display key of an event: its display name.  The rows of SpecMain carry no date,
\* so the name is the normalized game text alone.
DisplayKey(e) == e.name

\* the events written to the playlist, <<>> when no file is written
Written == IF playlist = <<>> THEN <<>> ELSE playlist[1]

\* what the tasks contribute when a task that raised counts as an empty result
Contribution(t) == IF taskState[t] = "raised" THEN <<>> ELSE taskResult[t]

\* C3: the final output holds at most one event per display key (of several rows with
\* the same display key only the first assembled is kept).
C3_OneEventPerDisplayKey ==
    \A i, j \in 1..Len(Written) : DisplayKey(Written[i]) = DisplayKey(Written[j]) => i = j

\* C9: when main has ended, every league task has run to its end, a task that failed
\* contributes an empty result, and the events of all the others are written to the
\* playlist.
C9_LeagueFailureIsolated ==
    mainPc \in {"done", "failed"} =>
        /\ \A t \in Tasks : taskState[t] \in {"returned", "raised"}
        /\ playlist = write_playlist(Flatten([t \in Tasks |-> Contribution(t)]))

\* C10: the events of the final output are in lexicographic order of their display keys
\* (whatever order the league tasks finished in).
C10_SortedByDisplayKey ==
    \A i \in 1..(Len(Written) - 1) :
        ~LexLess(DisplayKey(Written[i + 1]).game, DisplayKey(Written[i]).game)

====
